---- MODULE Spec2Model ----
(***************************************************************************)
(* A model of the UnivAegis verification backend:                          *)
(*   - EligibilityEngine.check_eligibility / _clean_gpa (eligibility.py)   *)
(*   - OCREngine.extract_data and its regex cascades     (ocr_engine.py)   *)
(*   - the upload_document request handler               (api.py)          *)
(* Text is modelled by TLA+ strings, read one character at a time; the     *)
(* regular expressions are modelled by syntax trees run by a backtracking  *)
(* matcher that yields its results in the priority order of Python's re.   *)
(* Floating-point values are modelled by exact decimals m / 10^d plus the  *)
(* two non-finite classes inf and nan.                                     *)
(***************************************************************************)
EXTENDS Integers, Sequences, FiniteSets, TLC

VARIABLES
    pc,             \* position of the operation in progress
    extracted_gpa,  \* check_eligibility argument
    ielts_score,    \* check_eligibility argument
    result,         \* outcome of check_eligibility
    text_list,      \* extract_data argument (the OCR fragments)
    extracted_data, \* outcome of extract_data
    file,           \* the upload of upload_document
    calls,          \* upload_document: collaborator calls made so far, in order
    response        \* upload_document: the HTTP response

vars == <<pc, extracted_gpa, ielts_score, result, text_list, extracted_data,
          file, calls, response>>

(***************************************************************************)
(* Characters and Python's str methods                                     *)
(***************************************************************************)
Ch(t, i) == SubSeq(t, i, i)

DigitStr == "0123456789"
UpperStr == "ABCDEFGHIJKLMNOPQRSTUVWXYZ"
LowerStr == "abcdefghijklmnopqrstuvwxyz"

DigitSet == {Ch(DigitStr, i) : i \in 1..Len(DigitStr)}
UpperSet == {Ch(UpperStr, i) : i \in 1..Len(UpperStr)}
LowerSet == {Ch(LowerStr, i) : i \in 1..Len(LowerStr)}
LetterSet == UpperSet \cup LowerSet
WhiteSpace == {" ", "\n", "\t", "\r", "\f"}

DigitVal(c) == (CHOOSE i \in 1..Len(DigitStr) : Ch(DigitStr, i) = c) - 1

LowerTable == [c \in UpperSet |-> Ch(LowerStr, CHOOSE i \in 1..Len(UpperStr) : Ch(UpperStr, i) = c)]
UpperTable == [c \in LowerSet |-> Ch(UpperStr, CHOOSE i \in 1..Len(LowerStr) : Ch(LowerStr, i) = c)]

ToLowerCh(c) == IF c \in UpperSet THEN LowerTable[c] ELSE c
SwapCaseCh(c) == IF c \in UpperSet THEN LowerTable[c] ELSE IF c \in LowerSet THEN UpperTable[c] ELSE c

SetMin(S) == CHOOSE i \in S : \A j \in S : i <= j
SetMax(S) == CHOOSE i \in S : \A j \in S : i >= j

\* str.lower()
RECURSIVE PyLower(_)
PyLower(s) ==
    IF Len(s) = 0 THEN ""
    ELSE IF Len(s) = 1 THEN ToLowerCh(s)
    ELSE LET h == Len(s) \div 2
         IN PyLower(SubSeq(s, 1, h)) \o PyLower(SubSeq(s, h + 1, Len(s)))

\* needle in haystack
PyContains(hay, needle) ==
    \E i \in 1..(Len(hay) - Len(needle) + 1) : SubSeq(hay, i, i + Len(needle) - 1) = needle

\* str.strip()
PyStrip(s) ==
    LET keep == {i \in 1..Len(s) : Ch(s, i) \notin WhiteSpace}
    IN IF keep = {} THEN "" ELSE SubSeq(s, SetMin(keep), SetMax(keep))

\* str.replace(c, '') for a one-character c
RECURSIVE PyRemove(_, _)
PyRemove(s, c) ==
    IF Len(s) = 0 THEN ""
    ELSE IF Len(s) = 1 THEN (IF s = c THEN "" ELSE s)
    ELSE LET h == Len(s) \div 2
         IN PyRemove(SubSeq(s, 1, h), c) \o PyRemove(SubSeq(s, h + 1, Len(s)), c)

\* str.split(): the maximal runs of non-whitespace characters, in order
RECURSIVE SplitFrom(_, _)
SplitFrom(s, i) ==
    LET starts == {j \in i..Len(s) : Ch(s, j) \notin WhiteSpace}
    IN IF starts = {} THEN <<>>
       ELSE LET b == SetMin(starts)
                stops == {j \in b..Len(s) : j = Len(s) \/ Ch(s, j + 1) \in WhiteSpace}
                e == SetMin(stops)
            IN <<SubSeq(s, b, e)>> \o SplitFrom(s, e + 1)

PySplit(s) == SplitFrom(s, 1)

\* sep.join(parts)
RECURSIVE PyJoin(_, _)
PyJoin(sep, parts) ==
    IF Len(parts) = 0 THEN ""
    ELSE IF Len(parts) = 1 THEN parts[1]
    ELSE parts[1] \o sep \o PyJoin(sep, Tail(parts))

\* str.isalpha() and str.isupper() on ASCII text
PyIsAlpha(s) == Len(s) > 0 /\ \A i \in 1..Len(s) : Ch(s, i) \in LetterSet
PyIsUpper(s) ==
    /\ \E i \in 1..Len(s) : Ch(s, i) \in UpperSet
    /\ \A i \in 1..Len(s) : Ch(s, i) \notin LowerSet

(***************************************************************************)
(* Python values and float()                                               *)
(***************************************************************************)
RECURSIVE Pow10(_)
Pow10(d) == IF d = 0 THEN 1 ELSE 10 * Pow10(d - 1)

\* a float: the decimal m / 10^d, or +-inf (m is the sign), or nan
Fin(m, d) == [cls |-> "fin", m |-> m, d |-> d]
Inf(sign) == [cls |-> "inf", m |-> sign, d |-> 0]
NaN == [cls |-> "nan", m |-> 0, d |-> 0]

\* v >= n, v > n, v <= n for a float v and an integer n (all false for nan)
FGe(v, n) == \/ v.cls = "fin" /\ v.m >= n * Pow10(v.d)
             \/ v.cls = "inf" /\ v.m > 0
FGt(v, n) == \/ v.cls = "fin" /\ v.m > n * Pow10(v.d)
             \/ v.cls = "inf" /\ v.m > 0
FLe(v, n) == \/ v.cls = "fin" /\ v.m <= n * Pow10(v.d)
             \/ v.cls = "inf" /\ v.m < 0

\* Python objects passed to the engine
PyNone == [t |-> "NoneType"]
PyStr(s) == [t |-> "str", s |-> s]
PyFloat(v) == [t |-> "float", v |-> v]
PyInt(n, e) == [t |-> "int", n |-> n, e |-> e]   \* the int n * 10^e
PyList == [t |-> "list"]

\* the outcome of an expression: a value, or a raised exception
Ok(v) == [exc |-> "none", v |-> v]
Raise(e) == [exc |-> e, v |-> NaN]

\* largest power of ten a double holds (sys.float_info.max_10_exp)
DBL_MAX_10_EXP == 308

RECURSIVE DigitsToInt(_)
DigitsToInt(s) ==
    IF Len(s) = 0 THEN 0
    ELSE 10 * DigitsToInt(SubSeq(s, 1, Len(s) - 1)) + DigitVal(Ch(s, Len(s)))

\* digits with at most one point and at least one digit
DecimalForm(s) ==
    /\ \A i \in 1..Len(s) : Ch(s, i) \in DigitSet \cup {"."}
    /\ Cardinality({i \in 1..Len(s) : Ch(s, i) = "."}) <= 1
    /\ \E i \in 1..Len(s) : Ch(s, i) \in DigitSet

\* float(str): surrounding whitespace, a sign, then inf / infinity / nan or a
\* decimal numeral.  Exponents and digit-separating underscores are outside
\* the alphabet of the modelled inputs.
PyFloatStr(s0) ==
    LET s == PyStrip(s0)
        signed == Len(s) > 0 /\ Ch(s, 1) \in {"+", "-"}
        sign == IF signed /\ Ch(s, 1) = "-" THEN -1 ELSE 1
        body == IF signed THEN SubSeq(s, 2, Len(s)) ELSE s
        lb == PyLower(body)
    IN IF lb \in {"inf", "infinity"} THEN Ok(Inf(sign))
       ELSE IF lb = "nan" THEN Ok(NaN)
       ELSE IF DecimalForm(body)
            THEN LET dots == {i \in 1..Len(body) : Ch(body, i) = "."}
                     d == IF dots = {} THEN 0 ELSE Len(body) - SetMin(dots)
                 IN Ok(Fin(sign * DigitsToInt(PyRemove(body, ".")), d))
            ELSE Raise("ValueError")

\* float(x).  An int beyond the range of a double raises OverflowError; the
\* modelled ints are n (e = 0) and powers of ten (n = 1).
PyFloatOf(x) ==
    CASE x.t = "float" -> Ok(x.v)
      [] x.t = "int" -> IF x.e > DBL_MAX_10_EXP THEN Raise("OverflowError")
                        ELSE Ok(Fin(x.n * Pow10(x.e), 0))
      [] x.t = "str" -> PyFloatStr(x.s)
      [] OTHER -> Raise("TypeError")

(***************************************************************************)
(* eligibility.py                                                          *)
(***************************************************************************)
GPA_THRESHOLD == 8
PERCENTAGE_THRESHOLD == 80
IELTS_THRESHOLD == 8

\* _clean_gpa's outcome: a float, None, or an exception the function lets out
CleanFloat(v) == [exc |-> "none", none |-> FALSE, v |-> v]
CleanNone == [exc |-> "none", none |-> TRUE, v |-> NaN]
CleanRaise(e) == [exc |-> e, none |-> TRUE, v |-> NaN]

CleanCaught == {"ValueError", "AttributeError", "TypeError"}

CleanHandle(r) ==
    IF r.exc = "none" THEN CleanFloat(r.v)
    ELSE IF r.exc \in CleanCaught THEN CleanNone
    ELSE CleanRaise(r.exc)

clean_gpa(gpa_input) ==
    IF gpa_input.t \in {"int", "float"} THEN CleanHandle(PyFloatOf(gpa_input))
    ELSE IF gpa_input.t = "str"
         THEN CleanHandle(PyFloatStr(PyStrip(PyRemove(PyRemove(PyStrip(gpa_input.s), "%"), ","))))
         ELSE CleanNone

\* a reason: the criterion it belongs to, its fixed wording, the value and
\* the threshold the f-string interpolates
Reason(crit, msg, v, th) == [crit |-> crit, msg |-> msg, v |-> v, th |-> th]

\* GradeBranch with the scale cutoff taken as >= 10
GradeBranchCutoffInclusive(gpa_value) ==
    IF FGe(gpa_value, 10)
    THEN IF FGe(gpa_value, PERCENTAGE_THRESHOLD)
         THEN [pass |-> TRUE,
               reason |-> Reason("gpa", "Percentage meets requirement", gpa_value, PERCENTAGE_THRESHOLD)]
         ELSE [pass |-> FALSE,
               reason |-> Reason("gpa", "Percentage is below required", gpa_value, PERCENTAGE_THRESHOLD)]
    ELSE IF FGe(gpa_value, GPA_THRESHOLD)
         THEN [pass |-> TRUE,
               reason |-> Reason("gpa", "GPA meets requirement", gpa_value, GPA_THRESHOLD)]
         ELSE [pass |-> FALSE,
               reason |-> Reason("gpa", "GPA is below required", gpa_value, GPA_THRESHOLD)]

\* the scale cutoff and the comparison with the threshold of the scale
GradeBranch(gpa_value) ==
    IF FGt(gpa_value, 10)
    THEN IF FGe(gpa_value, PERCENTAGE_THRESHOLD)
         THEN [pass |-> TRUE,
               reason |-> Reason("gpa", "Percentage meets requirement", gpa_value, PERCENTAGE_THRESHOLD)]
         ELSE [pass |-> FALSE,
               reason |-> Reason("gpa", "Percentage is below required", gpa_value, PERCENTAGE_THRESHOLD)]
    ELSE IF FGe(gpa_value, GPA_THRESHOLD)
         THEN [pass |-> TRUE,
               reason |-> Reason("gpa", "GPA meets requirement", gpa_value, GPA_THRESHOLD)]
         ELSE [pass |-> FALSE,
               reason |-> Reason("gpa", "GPA is below required", gpa_value, GPA_THRESHOLD)]

\* lines 39-62: the GPA/percentage check
GradeCheck(gpa) ==
    IF gpa = PyNone \/ gpa = PyStr("")
    THEN [exc |-> "none", pass |-> FALSE,
          reason |-> Reason("gpa", "GPA/Percentage not found in document", NaN, 0)]
    ELSE LET c == clean_gpa(gpa)
         IN IF c.exc # "none"
            THEN [exc |-> c.exc, pass |-> FALSE, reason |-> Reason("gpa", "", NaN, 0)]
            ELSE IF c.none
            THEN [exc |-> "none", pass |-> FALSE,
                  reason |-> Reason("gpa", "Unable to parse GPA/Percentage value", NaN, 0)]
            ELSE LET b == GradeBranch(c.v)
                 IN [exc |-> "none", pass |-> b.pass, reason |-> b.reason]

IeltsCaught == {"ValueError", "TypeError"}

\* lines 64-77: the IELTS check
IeltsCheck(score) ==
    IF score = PyNone
    THEN [exc |-> "none", pass |-> FALSE,
          reason |-> Reason("ielts", "IELTS score not provided", NaN, 0)]
    ELSE LET r == PyFloatOf(score)
         IN IF r.exc = "none"
            THEN IF FGe(r.v, IELTS_THRESHOLD)
                 THEN [exc |-> "none", pass |-> TRUE,
                       reason |-> Reason("ielts", "IELTS score meets requirement", r.v, IELTS_THRESHOLD)]
                 ELSE [exc |-> "none", pass |-> FALSE,
                       reason |-> Reason("ielts", "IELTS score is below required", r.v, IELTS_THRESHOLD)]
            ELSE IF r.exc \in IeltsCaught
            THEN [exc |-> "none", pass |-> FALSE,
                  reason |-> Reason("ielts", "Invalid IELTS score format", NaN, 0)]
            ELSE [exc |-> r.exc, pass |-> FALSE, reason |-> Reason("ielts", "", NaN, 0)]

Raised(e) == [exc |-> e, eligible |-> FALSE, reasons |-> <<>>]

check_eligibility(gpa, score) ==
    LET g == GradeCheck(gpa)
    IN IF g.exc # "none" THEN Raised(g.exc)
       ELSE LET i == IeltsCheck(score)
            IN IF i.exc # "none" THEN Raised(i.exc)
               ELSE [exc |-> "none",
                     eligible |-> g.pass /\ i.pass,
                     reasons |-> <<g.reason, i.reason>>]

(***************************************************************************)
(* Regular expressions: syntax trees and a backtracking matcher            *)
(***************************************************************************)
Set(S) == [k |-> "set", s |-> S]                     \* one character of S
Lit(c) == Set({c})                                   \* the character c
Cat(xs) == [k |-> "cat", xs |-> xs]                  \* xs[1] xs[2] ...
Alt(xs) == [k |-> "alt", xs |-> xs]                  \* xs[1] | xs[2] | ...
Rep(x, lo, hi) == [k |-> "rep", x |-> x, lo |-> lo, hi |-> hi, inf |-> FALSE]  \* x{lo,hi}
Star(x) == [k |-> "rep", x |-> x, lo |-> 0, hi |-> 0, inf |-> TRUE]            \* x*
Plus(x) == [k |-> "rep", x |-> x, lo |-> 1, hi |-> 0, inf |-> TRUE]            \* x+
Opt(x) == Rep(x, 0, 1)                               \* x?
Grp(x) == [k |-> "grp", x |-> x]                     \* (x), the capture group 1
Str(w) == Cat([i \in 1..Len(w) |-> Lit(Ch(w, i))])   \* the literal text w

\* re.IGNORECASE: a character matches a set when it or its other case is in it
MatchCh(c, S) == c \in S \/ SwapCaseCh(c) \in S

RECURSIVE Concat(_)
Concat(ss) == IF Len(ss) = 0 THEN <<>> ELSE Head(ss) \o Concat(Tail(ss))

\* A matcher state: p the next position to read, gs..ge the span of group 1.
\* M yields every way node n matches t from st, preferred first: greedy
\* repetition tries one more round before stopping, alternation goes left
\* to right.  The head of the result is what a backtracking engine returns.
RECURSIVE M(_, _, _)
RECURSIVE MCat(_, _, _, _)
RECURSIVE MRep(_, _, _, _)

M(n, t, st) ==
    CASE n.k = "set" ->
           IF st.p <= Len(t) /\ MatchCh(Ch(t, st.p), n.s)
           THEN <<[st EXCEPT !.p = @ + 1]>>
           ELSE <<>>
      [] n.k = "cat" -> MCat(n.xs, 1, t, st)
      [] n.k = "alt" -> Concat([j \in 1..Len(n.xs) |-> M(n.xs[j], t, st)])
      [] n.k = "rep" -> MRep(n, 0, t, st)
      [] n.k = "grp" ->
           LET r == M(n.x, t, st)
           IN [j \in 1..Len(r) |-> [r[j] EXCEPT !.gs = st.p, !.ge = r[j].p - 1]]

MCat(xs, i, t, st) ==
    IF i > Len(xs) THEN <<st>>
    ELSE LET r == M(xs[i], t, st)
         IN Concat([j \in 1..Len(r) |-> MCat(xs, i + 1, t, r[j])])

MRep(n, cnt, t, st) ==
    LET r == IF n.inf \/ cnt < n.hi THEN M(n.x, t, st) ELSE <<>>
        more == Concat([j \in 1..Len(r) |->
                          IF r[j].p > st.p THEN MRep(n, cnt + 1, t, r[j]) ELSE <<>>])
        stop == IF cnt >= n.lo THEN <<st>> ELSE <<>>
    IN more \o stop

MatchAt(pat, t, i) == M(pat, t, [p |-> i, gs |-> 1, ge |-> 0])

NoMatch == [found |-> FALSE, g1 |-> ""]

\* re.search(pat, t, re.IGNORECASE): the match at the leftmost position where
\* one exists; g1 is match.group(1)
Search(pat, t) ==
    LET hits == {i \in 1..(Len(t) + 1) : Len(MatchAt(pat, t, i)) > 0}
    IN IF hits = {} THEN NoMatch
       ELSE LET m == Head(MatchAt(pat, t, SetMin(hits)))
            IN [found |-> TRUE, g1 |-> SubSeq(t, m.gs, m.ge)]

(***************************************************************************)
(* ocr_engine.py: extract_data                                             *)
(***************************************************************************)
ReD == Set(DigitSet)                                  \* \d
ReS == Set(WhiteSpace)                                \* \s
ReDot == Lit(".")                                     \* \.
ReSep == Set({":", "-"} \cup WhiteSpace)              \* [:\s\-]
ReColon == Set({":"} \cup WhiteSpace)                 \* [:\s]
ReNum == Grp(Cat(<<Plus(ReD), Opt(ReDot), Star(ReD)>>))            \* (\d+\.?\d*)
Labelled(label) == Cat(<<label, Star(ReSep), ReNum>>)              \* label[:\s\-]*(\d+\.?\d*)

gpa_patterns == <<
    Labelled(Str("CGPA")),
    Labelled(Str("(CGPA)")),
    Labelled(Cat(<<Lit("C"), Opt(ReDot), Lit("G"), Opt(ReDot), Lit("P"), Opt(ReDot), Lit("A"), Opt(ReDot)>>)),
    Labelled(Str("GPA")),
    Labelled(Cat(<<Lit("G"), Opt(ReDot), Lit("P"), Opt(ReDot), Lit("A"), Opt(ReDot)>>)),
    Labelled(Str("Grade")),
    Labelled(Cat(<<Str("Final"), Plus(ReS), Str("Grade")>>)),
    Labelled(Str("Percentage")),
    Cat(<<Grp(Cat(<<Rep(ReD, 1, 3), Opt(ReDot), Star(ReD)>>)), Star(ReS), Lit("%")>>),
    Labelled(Str("Percent")),
    Labelled(Str("Score")),
    Labelled(Str("Total")) >>

\* [A-Z][a-zA-Z]+
ReWord == Cat(<<Set(UpperSet), Plus(Set(LetterSet))>>)
\* ([A-Z][a-zA-Z]+(?:\s+[A-Z][a-zA-Z]+){1,3})
ReNameRun == Grp(Cat(<<ReWord, Rep(Cat(<<Plus(ReS), ReWord>>), 1, 3)>>))

name_patterns == <<
    Cat(<<Opt(Cat(<<Str("Student"), Plus(ReS)>>)), Str("Name"), Plus(ReColon), ReNameRun>>),
    Cat(<<Str("Name"), Plus(ReS), Str("of"), Plus(ReS), Opt(Cat(<<Str("the"), Plus(ReS)>>)),
          Str("Student"), Plus(ReColon), ReNameRun>>),
    Cat(<<Str("Candidate"), Plus(ReColon), ReNameRun>> ) >>

stop_words == {"University", "College", "Institute", "School", "Department",
               "Faculty", "Of", "The", "And", "CGPA", "GPA", "Grade"}

\* (?:Rs\.?|INR|₹|\$)
ReCurrency == Alt(<<Cat(<<Str("Rs"), Opt(ReDot)>>), Str("INR"), Lit("₹"), Lit("$")>>)
\* ([0-9,]+\.?[0-9]*)
ReAmount == Grp(Cat(<<Plus(Set(DigitSet \cup {","})), Opt(ReDot), Star(ReD)>>))
Money(label) == Cat(<<label, Star(ReColon), ReCurrency, Star(ReS), ReAmount>>)

financial_patterns == <<
    Money(Str("Balance")),
    Money(Cat(<<Str("Available"), Plus(ReS), Str("Balance")>>)),
    Money(Cat(<<Str("Current"), Plus(ReS), Str("Balance")>>)),
    Money(Str("Amount")),
    Money(Str("Total")),
    Money(Cat(<<Str("Fee"), Opt(Set({"s"}))>>)),
    Money(Str("Tuition")) >>

keywords == <<"Name", "GPA", "CGPA", "Grade", "Student", "University">>

\* GpaInRange without the upper end of the range
GpaInRangeNoUpper(float_val) == FGe(float_val, 0)

\* 0 <= float_val <= 100
GpaInRange(float_val) == FGe(float_val, 0) /\ FLe(float_val, 100)

\* lines 171-183: the first pattern, in order, whose match is a value in range
RECURSIVE GpaCascade(_, _)
GpaCascade(raw_text, i) ==
    IF i > Len(gpa_patterns) THEN PyNone
    ELSE LET match == Search(gpa_patterns[i], raw_text)
         IN IF match.found
            THEN LET f == PyFloatStr(match.g1)
                 IN IF f.exc = "none" /\ GpaInRange(f.v)
                    THEN PyStr(match.g1)
                    ELSE GpaCascade(raw_text, i + 1)
            ELSE GpaCascade(raw_text, i + 1)

\* lines 209-215: keep name-like words up to the first stop word
RECURSIVE CleanWords(_, _)
CleanWords(name_words, i) ==
    IF i > Len(name_words) THEN <<>>
    ELSE LET word == name_words[i]
         IN IF word \in stop_words THEN <<>>
            ELSE IF PyIsUpper(Ch(word, 1)) /\ PyIsAlpha(word)
                 THEN <<word>> \o CleanWords(name_words, i + 1)
                 ELSE CleanWords(name_words, i + 1)

\* 2 <= len(cleaned_words) <= 4
NameAccepted(cleaned_words) == 2 <= Len(cleaned_words) /\ Len(cleaned_words) <= 4

\* lines 196-221
RECURSIVE NameCascade(_, _)
NameCascade(raw_text_multiline, i) ==
    IF i > Len(name_patterns) THEN PyNone
    ELSE LET match == Search(name_patterns[i], raw_text_multiline)
         IN IF match.found
            THEN LET cleaned_words == CleanWords(PySplit(PyStrip(match.g1)), 1)
                 IN IF NameAccepted(cleaned_words)
                    THEN PyStr(PyJoin(" ", cleaned_words))
                    ELSE NameCascade(raw_text_multiline, i + 1)
            ELSE NameCascade(raw_text_multiline, i + 1)

\* BalanceValid taking zero for an amount
BalanceValidZeroToo(float_val) == FGe(float_val, 0)

\* float_val > 0
BalanceValid(float_val) == FGt(float_val, 0)

\* lines 239-251
RECURSIVE BalanceCascade(_, _)
BalanceCascade(raw_text, i) ==
    IF i > Len(financial_patterns) THEN PyNone
    ELSE LET match == Search(financial_patterns[i], raw_text)
         IN IF match.found
            THEN LET balance == PyRemove(match.g1, ",")
                     f == PyFloatStr(balance)
                 IN IF f.exc = "none" /\ BalanceValid(f.v)
                    THEN PyStr(balance)
                    ELSE BalanceCascade(raw_text, i + 1)
            ELSE BalanceCascade(raw_text, i + 1)

\* exact fractions n / d for the confidence arithmetic
RECURSIVE Gcd(_, _)
Gcd(a, b) == IF b = 0 THEN a ELSE Gcd(b, a % b)
Rat(n, d) == LET g == Gcd(n, d) IN IF g = 0 THEN [n |-> 0, d |-> 1] ELSE [n |-> n \div g, d |-> d \div g]
RAdd(x, y) == Rat(x.n * y.d + y.n * x.d, x.d * y.d)
RMul(x, y) == Rat(x.n * y.n, x.d * y.d)
RMin(x, y) == IF x.n * y.d <= y.n * x.d THEN x ELSE y

\* Round2 cutting the third decimal off instead of rounding
Round2Truncate(x) == Fin((100 * x.n) \div x.d, 2)

\* round(x, 2), as a float with two decimals: the nearest hundredth
Round2(x) == Fin((200 * x.n + x.d) \div (2 * x.d), 2)

\* TextLengthConfidence saturating at 1000 characters
TextLengthConfidenceAt1000(raw_text) == RMul(RMin(Rat(Len(raw_text), 1000), Rat(1, 1)), Rat(2, 10))

\* min(len(raw_text) / 500, 1.0) * 0.2
TextLengthConfidence(raw_text) == RMul(RMin(Rat(Len(raw_text), 500), Rat(1, 1)), Rat(2, 10))

\* lines 264-266
KeywordCount(raw_text) ==
    Cardinality({i \in 1..Len(keywords) : PyContains(PyLower(raw_text), PyLower(keywords[i]))})
KeywordConfidence(raw_text) ==
    RMul(RMin(Rat(KeywordCount(raw_text), Len(keywords)), Rat(1, 1)), Rat(2, 10))

\* (successful_extractions / total_attempts) * 0.6
ExtractionConfidence(successful_extractions) == RMul(Rat(successful_extractions, 3), Rat(6, 10))

Found(x) == IF x = PyNone THEN 0 ELSE 1

extract_data(fragments) ==
    LET raw_text == PyJoin(" ", fragments)
        raw_text_multiline == PyJoin("\n", fragments)
        gpa == GpaCascade(raw_text, 1)
        name == NameCascade(raw_text_multiline, 1)
        balance == BalanceCascade(raw_text, 1)
        successful_extractions == Found(gpa) + Found(name) + Found(balance)
        total_confidence == RAdd(RAdd(ExtractionConfidence(successful_extractions),
                                      TextLengthConfidence(raw_text)),
                                 KeywordConfidence(raw_text))
    IN [raw_text |-> raw_text,
        extracted_gpa |-> gpa,
        extracted_name |-> name,
        extracted_balance |-> balance,
        confidence_score |-> Round2(total_confidence)]

(***************************************************************************)
(* Specification of check_eligibility: Init draws the two arguments, the   *)
(* action applies the function.                                            *)
(***************************************************************************)
MaxPercent == 100     \* int grades 0 .. MaxPercent
MaxTenths == 110      \* float grades 0.0 .. MaxTenths / 10
MaxHalfBands == 18    \* float test scores 0.0, 0.5 .. MaxHalfBands / 2
BigExp == 400         \* the int 10^BigExp

GradeStrings == {"", " ", "9.0", "85", "7.5", "85%", "79.9%", " 8.5 ", "8", "10", "10.0",
                 "10.01", "80", "1,000", "abc", "9.2.1", "-5", "nan", "inf", "%", "55000"}

Grades ==
    {PyNone, PyList, PyInt(1, BigExp), PyFloat(NaN), PyFloat(Inf(1)), PyFloat(Inf(-1))}
    \cup {PyStr(g) : g \in GradeStrings}
    \cup {PyInt(n, 0) : n \in 0..MaxPercent}
    \cup {PyFloat(Fin(m, 1)) : m \in 0..MaxTenths}

Scores ==
    {PyNone, PyList, PyStr("abc"), PyStr("8.5"), PyInt(1, BigExp), PyInt(8, 0), PyInt(7, 0),
     PyFloat(NaN), PyFloat(Inf(1))}
    \cup {PyFloat(Fin(5 * h, 1)) : h \in 0..MaxHalfBands}

Idle == [idle |-> TRUE]

InitElig ==
    /\ pc = "call"
    /\ extracted_gpa \in Grades
    /\ ielts_score \in Scores
    /\ result = Idle
    /\ text_list = <<>>
    /\ extracted_data = Idle
    /\ file = Idle
    /\ calls = <<>>
    /\ response = Idle

CheckEligibility ==
    /\ pc = "call"
    /\ result' = check_eligibility(extracted_gpa, ielts_score)
    /\ pc' = "return"
    /\ UNCHANGED <<extracted_gpa, ielts_score, text_list, extracted_data, file, calls, response>>

NextElig == CheckEligibility

SpecElig == InitElig /\ [][NextElig]_vars

(***************************************************************************)
(* Properties of check_eligibility                                         *)
(***************************************************************************)
Returned == pc = "return" /\ result.exc = "none"

\* what each criterion is: a present, parseable value at or above the
\* threshold of its scale
GradeValue == clean_gpa(extracted_gpa)
GradeParseable ==
    /\ extracted_gpa \notin {PyNone, PyStr("")}
    /\ GradeValue.exc = "none"
    /\ ~GradeValue.none
GradeCriterionPasses ==
    /\ GradeParseable
    /\ \/ FGt(GradeValue.v, 10) /\ FGe(GradeValue.v, 80)
       \/ FLe(GradeValue.v, 10) /\ FGe(GradeValue.v, 8)
ScoreValue == PyFloatOf(ielts_score)
ScoreCoercible == ielts_score # PyNone /\ ScoreValue.exc = "none"
ScoreCriterionPasses == ScoreCoercible /\ FGe(ScoreValue.v, 8)

\* C1: for every input, check_eligibility returns eligible = true exactly
\* when the grade criterion and the test-score criterion both pass, and a
\* grade that is absent, empty or unparseable, or a test score that is absent
\* or not coercible, makes it return eligible = false whatever the other
\* input is.
C1_EligibleIffBothCriteriaPass ==
    pc = "return" =>
        /\ result.exc = "none"
        /\ result.eligible <=> (GradeCriterionPasses /\ ScoreCriterionPasses)
        /\ (~GradeParseable \/ ~ScoreCoercible) => ~result.eligible

\* C2: for every parseable grade value v the grade criterion uses the
\* percentage threshold 80.0 when v > 10 and the grade-point threshold 8.0
\* when v <= 10, and passes exactly when (v > 10 and v >= 80) or (v <= 10 and
\* v >= 8); 85 passes on the percentage branch, 7.5 fails on the grade-point
\* branch; with a passing test score the decision is that of the criterion.
C2_ScaleAndThreshold ==
    (Returned /\ GradeParseable) =>
        LET v == GradeValue.v
            r == result.reasons[1]
            passed == r.msg \in {"Percentage meets requirement", "GPA meets requirement"}
        IN /\ FGt(v, 10) => /\ r.th = 80
                            /\ r.msg \in {"Percentage meets requirement", "Percentage is below required"}
           /\ FLe(v, 10) => /\ r.th = 8
                            /\ r.msg \in {"GPA meets requirement", "GPA is below required"}
           /\ passed <=> (FGt(v, 10) /\ FGe(v, 80)) \/ (FLe(v, 10) /\ FGe(v, 8))
           /\ v = Fin(85, 0) => r.msg = "Percentage meets requirement"
           /\ v = Fin(75, 1) => r.msg = "GPA is below required"
           /\ ScoreCriterionPasses => (result.eligible <=> passed)

\* a grade of exactly 10 is judged on the grade-point scale and passes
C2_Witness ==
    /\ Returned
    /\ extracted_gpa = PyStr("10")
    /\ result.reasons[1].msg = "GPA meets requirement"
    /\ result.reasons[1].th = 8

\* C3: for every input combination check_eligibility returns a result without
\* raising, and its reasons are a grade-criterion reason followed by a
\* test-score-criterion reason, on success and on every failure path.
C3_NeverRaisesTwoOrderedReasons ==
    pc = "return" =>
        /\ result.exc = "none"
        /\ Len(result.reasons) = 2
        /\ result.reasons[1].crit = "gpa"
        /\ result.reasons[2].crit = "ielts"

(***************************************************************************)
(* Specifications of extract_data: Init draws the fragment sequence, the   *)
(* action applies the function.                                            *)
(***************************************************************************)
MaxFrags == 2         \* fragments per sequence under SpecExtract

Lexicon == {"CGPA: 9.2", "Total: 55000", "GPA: 920", "GPA: 7.5", "Percentage: 85%",
            "Name: John", "Name: John Michael Smith Kumar Singh",
            "Student Name: John Michael Smith University of Technology",
            "Name: Mary ann Lee", "Candidate: Asha Rao",
            "Balance: Rs. 1,25,000.50", "Balance: Rs. 0", "Amount: $ ,,"}

FragmentSeqs == UNION {[1..n -> Lexicon] : n \in 0..MaxFrags}

InitExtract ==
    /\ pc = "call"
    /\ text_list \in FragmentSeqs
    /\ extracted_data = Idle
    /\ extracted_gpa = PyNone
    /\ ielts_score = PyNone
    /\ result = Idle
    /\ file = Idle
    /\ calls = <<>>
    /\ response = Idle

ExtractData ==
    /\ pc = "call"
    /\ extracted_data' = extract_data(text_list)
    /\ pc' = "return"
    /\ UNCHANGED <<extracted_gpa, ielts_score, result, text_list, file, calls, response>>

NextExtract == ExtractData

SpecExtract == InitExtract /\ [][NextExtract]_vars

\* Long documents: some of four lines that between them hold every field and
\* every keyword, then a line of filler that brings len(raw_text) to a target
\* around the 500 characters at which the text-length signal saturates.
LenMargin == 13       \* targets 500 - LenMargin .. 500 + LenMargin

ConfLines == <<"Student Name: John Smith", "CGPA: 9.2", "Balance: Rs. 500",
               "University Grade Sheet">>

RECURSIVE Pick(_, _)
Pick(lines, mask) ==
    IF Len(lines) = 0 THEN <<>>
    ELSE (IF Len(lines) \in mask THEN Pick(SubSeq(lines, 1, Len(lines) - 1), mask) \o <<lines[Len(lines)]>>
          ELSE Pick(SubSeq(lines, 1, Len(lines) - 1), mask))

RECURSIVE Filler(_)
Filler(n) ==
    IF n = 0 THEN ""
    ELSE IF n = 1 THEN "#"
    ELSE LET h == Filler(n \div 2) IN h \o h \o (IF n % 2 = 1 THEN "#" ELSE "")

\* body, then the filler line that makes the space-joined text target long
Padded(body, target) ==
    LET have == Len(PyJoin(" ", body)) + (IF Len(body) = 0 THEN 0 ELSE 1)
    IN IF target > have THEN body \o <<Filler(target - have)>> ELSE body

InitConf ==
    /\ pc = "call"
    /\ \E mask \in SUBSET (1..Len(ConfLines)), target \in {0} \cup ((500 - LenMargin)..(500 + LenMargin)) :
          text_list = Padded(Pick(ConfLines, mask), target)
    /\ extracted_data = Idle
    /\ extracted_gpa = PyNone
    /\ ielts_score = PyNone
    /\ result = Idle
    /\ file = Idle
    /\ calls = <<>>
    /\ response = Idle

SpecConf == InitConf /\ [][NextExtract]_vars

(***************************************************************************)
(* Properties of extract_data                                              *)
(***************************************************************************)
Extracted == pc = "return"

\* the value of a numeral, when it has one
IsNumber(str) == PyFloatStr(str).exc = "none"
NumberOf(str) == PyFloatStr(str).v

\* C4: the grade patterns are tried in declared order and the extracted grade
\* is the capture of the first pattern whose (leftmost) match is a number in
\* [0,100]; a pattern whose match is out of range is passed over; no grade is
\* extracted when no pattern has such a match; "CGPA: 9.2" beside
\* "Total: 55000" gives "9.2".
C4_FirstInRangePatternWins ==
    Extracted =>
        LET t == extracted_data.raw_text
            good == {i \in 1..Len(gpa_patterns) :
                        LET hit == Search(gpa_patterns[i], t)
                        IN /\ hit.found
                           /\ IsNumber(hit.g1)
                           /\ FGe(NumberOf(hit.g1), 0)
                           /\ FLe(NumberOf(hit.g1), 100)}
        IN /\ good = {} => extracted_data.extracted_gpa = PyNone
           /\ good # {} =>
                 extracted_data.extracted_gpa = PyStr(Search(gpa_patterns[SetMin(good)], t).g1)
           /\ text_list \in {<<"CGPA: 9.2", "Total: 55000">>, <<"Total: 55000", "CGPA: 9.2">>}
                 => extracted_data.extracted_gpa = PyStr("9.2")

\* the GPA pattern matches 920, which is out of range; the cascade goes on to
\* the Percentage pattern and takes its 85
C4_Witness ==
    /\ Extracted
    /\ text_list = <<"Percentage: 85%", "GPA: 920">>
    /\ extracted_data.extracted_gpa = PyStr("85")

\* C5: each optional field of the record is null or valid: extracted_gpa is a
\* number in [0,100]; extracted_name is 2 to 4 words joined by single spaces,
\* each alphabetic and starting with an uppercase letter; extracted_balance
\* holds no comma and is a number > 0.
C5_FieldsNullOrValid ==
    Extracted =>
        LET gpa == extracted_data.extracted_gpa
            name == extracted_data.extracted_name
            balance == extracted_data.extracted_balance
        IN /\ gpa # PyNone =>
                 /\ IsNumber(gpa.s)
                 /\ FGe(NumberOf(gpa.s), 0)
                 /\ FLe(NumberOf(gpa.s), 100)
           /\ name # PyNone =>
                 LET words == PySplit(name.s)
                 IN /\ Len(words) \in 2..4
                    /\ name.s = PyJoin(" ", words)
                    /\ \A i \in 1..Len(words) :
                          /\ \A j \in 1..Len(words[i]) : Ch(words[i], j) \in LetterSet
                          /\ Ch(words[i], 1) \in UpperSet
           /\ balance # PyNone =>
                 /\ ~PyContains(balance.s, ",")
                 /\ IsNumber(balance.s)
                 /\ FGt(NumberOf(balance.s), 0)

\* a balance whose commas were stripped beside a name whose lowercase word
\* was filtered out
C5_Witness ==
    /\ Extracted
    /\ text_list = <<"Balance: Rs. 1,25,000.50", "Name: Mary ann Lee">>
    /\ extracted_data.extracted_balance = PyStr("125000.50")
    /\ extracted_data.extracted_name = PyStr("Mary Lee")
    /\ extracted_data.extracted_gpa = PyNone

\* the three signals, read off the returned record
Populated ==
    Cardinality({f \in {"gpa", "name", "balance"} :
        \/ f = "gpa" /\ extracted_data.extracted_gpa # PyNone
        \/ f = "name" /\ extracted_data.extracted_name # PyNone
        \/ f = "balance" /\ extracted_data.extracted_balance # PyNone})
TextLen == Len(extracted_data.raw_text)
KeywordsFound ==
    Cardinality({w \in {"name", "gpa", "cgpa", "grade", "student", "university"} :
        PyContains(PyLower(extracted_data.raw_text), w)})
Least(a, b) == IF a <= b THEN a ELSE b
Distance(a, b) == IF a >= b THEN a - b ELSE b - a

\* 7500 times 0.6 * (fields / 3) + 0.2 * min(len / 500, 1) + 0.2 * min(keywords / 6, 1)
Total7500 == 1500 * Populated + 3 * Least(TextLen, 500) + 250 * Least(KeywordsFound, 6)

\* C6: for every fragment sequence, the empty one included, confidence_score
\* is the two-decimal rounding of 0.6 * (populated fields / 3) +
\* 0.2 * min(len(raw_text) / 500, 1) + 0.2 * min(keywords found / 6, 1) and
\* lies in [0,1].
C6_ConfidenceIsRoundedWeightedSum ==
    Extracted =>
        LET score == extracted_data.confidence_score
        IN /\ score.cls = "fin" /\ score.d = 2
           /\ 2 * Distance(75 * score.m, Total7500) <= 75
           /\ 0 <= score.m /\ score.m <= 100

\* a text beyond 500 characters with every field and keyword: the cap holds
\* the score at 1.0
C6_Witness ==
    /\ Extracted
    /\ TextLen > 500
    /\ Populated = 3
    /\ KeywordsFound = 6
    /\ extracted_data.confidence_score = Fin(100, 2)

\* C7 as stated: the score is 1.0 only when all three fields are populated,
\* len(raw_text) >= 500 and all six keywords occur; with any signal below its
\* maximum the rounded score is below 1.0.
C7_OneOnlyWhenAllSaturate ==
    (Extracted /\ extracted_data.confidence_score = Fin(100, 2)) =>
        /\ Populated = 3
        /\ TextLen >= 500
        /\ KeywordsFound = 6

\* C7 amended: the score is 1.0 exactly when all three fields are populated,
\* all six keywords occur and len(raw_text) >= 488, from where the rounding to
\* two decimals lifts the sum to 1.0.
C7_OneIffFieldsKeywordsAnd488 ==
    Extracted =>
        (extracted_data.confidence_score = Fin(100, 2)
            <=> (Populated = 3 /\ KeywordsFound = 6 /\ TextLen >= 488))

\* 488 characters, below the 500 of saturation, and a score of 1.0
C7_Witness ==
    /\ Extracted
    /\ TextLen = 488
    /\ Populated = 3
    /\ KeywordsFound = 6
    /\ extracted_data.confidence_score = Fin(100, 2)

\* a line "Name: " followed by a run of n words, each alphabetic, starting
\* with an uppercase letter and no stop word
NameLineOf(line, n) ==
    /\ Len(line) > 6
    /\ SubSeq(line, 1, 6) = "Name: "
    /\ LET run == PySplit(SubSeq(line, 7, Len(line)))
       IN /\ Len(run) = n
          /\ \A i \in 1..n : /\ PyIsAlpha(run[i])
                             /\ Ch(run[i], 1) \in UpperSet
                             /\ run[i] \notin stop_words

\* C8: a label followed by a run of exactly 1 word, or of exactly 5
\* capitalized alphabetic words with no stop word among them, yields no
\* accepted name: on a document that is this one line, extracted_name is null.
C8_OneOrFiveWordRunRejected ==
    (Extracted /\ Len(text_list) = 1
               /\ (NameLineOf(text_list[1], 1) \/ NameLineOf(text_list[1], 5)))
        => extracted_data.extracted_name = PyNone

\* C10: the name run never crosses a fragment boundary: all words of a
\* non-null extracted_name come from one single fragment.
C10_NameWithinOneFragment ==
    (Extracted /\ extracted_data.extracted_name # PyNone) =>
        \E i \in 1..Len(text_list) :
            \A w \in {PySplit(extracted_data.extracted_name.s)[j] :
                        j \in 1..Len(PySplit(extracted_data.extracted_name.s))} :
                PyContains(text_list[i], w)

(***************************************************************************)
(* api.py: upload_document, one action per step of the handler.  What the  *)
(* upload holds is drawn by Init: its name, its size, whether reading it    *)
(* succeeds, and what decoding and OCR make of its bytes.                  *)
(***************************************************************************)
MaxFileSize == 1      \* uploads of 0 .. MaxFileSize bytes

Filenames == {PyNone, PyStr("transcript.pdf"), PyStr("scan.PNG"), PyStr("photo.jpeg"),
              PyStr("pdf"), PyStr("notes.txt"), PyStr("archive.tar.gz"), PyStr("README")}

DecodeError == [ok |-> FALSE, text |-> <<>>]
Recognised(text) == [ok |-> TRUE, text |-> text]
OcrOutcomes == {DecodeError, Recognised(<<>>)} \cup {Recognised(<<line>>) : line \in Lexicon}

\* filename.lower().split('.')[-1]
FileExtension(filename) ==
    LET low == PyLower(filename)
        dots == {i \in 1..Len(low) : Ch(low, i) = "."}
    IN IF dots = {} THEN low ELSE SubSeq(low, SetMax(dots) + 1, Len(low))

allowed_extensions == {"pdf", "jpg", "jpeg", "png", "bmp", "tiff", "webp"}
image_extensions == {"jpg", "jpeg", "png", "bmp", "tiff", "webp"}

\* process_file swallowing what decoding raises and returning no text
process_file_swallow(filename, ocr) ==
    IF FileExtension(filename) = "pdf" \/ FileExtension(filename) \in image_extensions
    THEN [exc |-> "none", text |-> ocr.text]
    ELSE [exc |-> "ValueError", text |-> <<>>]

\* ocr_engine.py process_file: _pdf_to_image or _image_to_array by the
\* extension, then readtext; whatever they raise is printed and re-raised
process_file(filename, ocr) ==
    IF FileExtension(filename) = "pdf" \/ FileExtension(filename) \in image_extensions
    THEN IF ocr.ok THEN [exc |-> "none", text |-> ocr.text]
         ELSE [exc |-> "Exception", text |-> <<>>]
    ELSE [exc |-> "ValueError", text |-> <<>>]

HttpError(code, detail) == [status |-> "error", code |-> code, detail |-> detail, data |-> Idle]
HttpSuccess(data) == [status |-> "success", code |-> 200, detail |-> "", data |-> data]

InitUpload ==
    /\ pc = "validate"
    /\ file \in [filename : Filenames, size : 0..MaxFileSize, readable : BOOLEAN, ocr : OcrOutcomes]
    /\ calls = <<>>
    /\ response = Idle
    /\ text_list = <<>>
    /\ extracted_data = Idle
    /\ extracted_gpa = PyNone
    /\ ielts_score = PyNone
    /\ result = Idle

\* lines 39-46; a filename of None raises AttributeError, caught at line 73
ValidateType ==
    /\ pc = "validate"
    /\ IF file.filename = PyNone
       THEN response' = HttpError(500, "Error processing document") /\ pc' = "done"
       ELSE IF FileExtension(file.filename.s) \notin allowed_extensions
       THEN response' = HttpError(400, "Unsupported file type") /\ pc' = "done"
       ELSE response' = response /\ pc' = "read"
    /\ UNCHANGED <<extracted_gpa, ielts_score, result, text_list, extracted_data, file, calls>>

\* lines 48-56
ReadBytes ==
    /\ pc = "read"
    /\ IF ~file.readable
       THEN response' = HttpError(500, "Error processing document") /\ pc' = "done"
       ELSE IF file.size = 0
       THEN response' = HttpError(400, "Uploaded file is empty") /\ pc' = "done"
       ELSE response' = response /\ pc' = "process_file"
    /\ UNCHANGED <<extracted_gpa, ielts_score, result, text_list, extracted_data, file, calls>>

\* line 59, and lines 73-78 when process_file raises
ProcessFile ==
    /\ pc = "process_file"
    /\ LET r == process_file(file.filename.s, file.ocr)
       IN IF r.exc = "none"
          THEN /\ text_list' = r.text
               /\ calls' = calls \o <<"process_file", "process_file returned">>
               /\ response' = response
               /\ pc' = "extract_data"
          ELSE /\ text_list' = text_list
               /\ calls' = calls \o <<"process_file", "process_file raised">>
               /\ response' = HttpError(500, "Error processing document")
               /\ pc' = "done"
    /\ UNCHANGED <<extracted_gpa, ielts_score, result, extracted_data, file>>

\* line 62
ExtractStructured ==
    /\ pc = "extract_data"
    /\ extracted_data' = extract_data(text_list)
    /\ calls' = Append(calls, "extract_data")
    /\ pc' = "respond"
    /\ UNCHANGED <<extracted_gpa, ielts_score, result, text_list, file, response>>

\* lines 64-68
Respond ==
    /\ pc = "respond"
    /\ response' = HttpSuccess(extracted_data)
    /\ pc' = "done"
    /\ UNCHANGED <<extracted_gpa, ielts_score, result, text_list, extracted_data, file, calls>>

NextUpload == ValidateType \/ ReadBytes \/ ProcessFile \/ ExtractStructured \/ Respond

SpecUpload == InitUpload /\ [][NextUpload]_vars

(***************************************************************************)
(* Properties of upload_document                                           *)
(***************************************************************************)
Called(name) == \E i \in 1..Len(calls) : calls[i] = name

\* every upstream step succeeds on this upload
UpstreamSucceeds ==
    /\ file.filename # PyNone
    /\ FileExtension(file.filename.s) \in {"pdf", "jpg", "jpeg", "png", "bmp", "tiff", "webp"}
    /\ file.readable
    /\ file.size > 0
    /\ file.ocr.ok

\* C9: a failure of an upstream step (unsupported extension, empty upload, an
\* exception out of process_file) is answered by an error before the core is
\* invoked: extract_data is called only after process_file has returned, and
\* no success response is given when an upstream step failed.
C9_CoreOnlyAfterUpstreamSucceeded ==
    /\ \A i \in 1..Len(calls) :
          calls[i] = "extract_data" =>
              /\ UpstreamSucceeds
              /\ \E j \in 1..(i - 1) : calls[j] = "process_file returned"
    /\ Called("process_file raised") => ~Called("extract_data")
    /\ (pc = "done" /\ response.status = "success") => UpstreamSucceeds
    /\ (pc = "done" /\ ~UpstreamSucceeds) =>
          /\ response.status = "error"
          /\ ~Called("extract_data")

\* process_file raised on a well-named, non-empty upload and the handler
\* answered 500 without calling extract_data
C9_Witness ==
    /\ pc = "done"
    /\ calls = <<"process_file", "process_file raised">>
    /\ response.status = "error"
    /\ response.code = 500
    /\ file.size > 0

====
